---- MODULE Spec2Model ----
(***************************************************************************)
(* Model of the remoting gateway of pyamf/remoting/gateway.py: the service *)
(* collection (addService / removeService), the resolution of a message    *)
(* target (getServiceRequest), and the per-message pipeline processRequest *)
(* (resolve, authenticate, invoke, build_fault).                           *)
(*                                                                         *)
(* Python strings are modelled as sequences of one-character strings, so   *)
(* that rsplit('.', 1) and startswith('_') are computed, not assumed.      *)
(***************************************************************************)
EXTENDS Integers, Sequences, FiniteSets, TLC

VARIABLES
  services,   \* BaseGateway.services: name -> ServiceWrapper
  last,       \* outcome of the last addService / removeService call
  procs,      \* the callers that run processRequest (threads of the host)
  inbox,      \* the messages the transport may hand to processRequest
  pc,         \* per caller: position inside processRequest
  request,    \* per caller: the message being processed
  response,   \* per caller: the local variable response
  sr,         \* per caller: the local variable service_request
  authd,      \* per caller: the local variable authd
  func,       \* per caller: the callable returned by _get_service_func
  exc,        \* per caller: the exception that left processRequest
  h,          \* per caller: what this execution of processRequest has done
  heap,       \* the live service instances and their state
  view        \* the Django view: the envelopes and its position in the loop

vars == <<services, last, procs, inbox, pc, request, response, sr, authd,
          func, exc, h, heap, view>>

pipelineVars == <<procs, inbox, pc, request, response, sr, authd, func, exc,
                  h, heap, view>>

-----------------------------------------------------------------------------
(* Bounds of the model *)

\* largest number of entries the collection is driven to
MaxServices == 2

\* number of concurrent callers of processRequest in SpecConcurrent
NumProcs == 2

-----------------------------------------------------------------------------
(* Python values *)

\* None where a string is optional (name=None, method None)
PyNone == <<"None">>

\* the objects offered to addService / removeService
ClassC == "class C"
FuncF == "function f"
InstO == "instance o"
IntFive == "int 5"
StrS == "str 's'"
BoolTrue == "bool True"
NoneObj == "None"

Objects == {ClassC, FuncF, InstO, IntFive, StrS, BoolTrue, NoneObj}

\* type(obj).__name__
TypeOf(obj) ==
  CASE obj = ClassC -> "classobj"
    [] obj = FuncF -> "function"
    [] obj = InstO -> "instance"
    [] obj = IntFive -> "int"
    [] obj = StrS -> "str"
    [] obj = BoolTrue -> "bool"
    [] OTHER -> "NoneType"

\* the classes an object is an instance of: its type and that type's bases
\* (bool derives from int, str from basestring, every type from object)
Bases(obj) ==
  {TypeOf(obj), "object"}
    \cup (IF TypeOf(obj) = "bool" THEN {"int"} ELSE {})
    \cup (IF TypeOf(obj) = "str" THEN {"basestring"} ELSE {})

isinstance(obj, types) == Bases(obj) \cap types # {}

\* callable(obj): classes and functions; instances of C define no __call__
callable(obj) == TypeOf(obj) \in {"classobj", "type", "function", "instancemethod"}

\* service.__name__ / service.func_name / str(service)
NameOfC == <<"C">>
NameOfF == <<"f">>
StrOf(obj) ==
  CASE obj = ClassC -> <<"C">>
    [] obj = FuncF -> <<"<", "f", ">">>
    [] obj = InstO -> <<"<", "o", ">">>
    [] obj = IntFive -> <<"5">>
    [] obj = StrS -> <<"s">>
    [] obj = BoolTrue -> <<"T">>
    [] OTHER -> <<"N">>

\* authenticators and descriptions ("None" is Python's None)
Authenticators == {"None", "auth"}

\* ServiceWrapper.__init__
ServiceWrapper(service, authenticator, description) ==
  [service |-> service, authenticator |-> authenticator,
   description |-> description]

-----------------------------------------------------------------------------
(* Exceptions *)

NoArg == <<>>

Raise(cls, text, arg) == [cls |-> cls, text |-> text, arg |-> arg]

NoExc == Raise("", "", NoArg)

-----------------------------------------------------------------------------
(* ServiceCollection *)

EmptyServices == [n \in {} |-> ServiceWrapper(NoneObj, "None", "None")]

\* an argument of "in" / removeService: a string, a ServiceWrapper or another object
StrArg(s) == [tag |-> "str", str |-> s]
WrapperArg(w) == [tag |-> "wrapper", w |-> w]
ObjArg(o) == [tag |-> "obj", obj |-> o]

\* ServiceWrapper.__cmp__(self, other) == 0
WrapperEquals(self, other) ==
  IF other.tag = "wrapper"
    THEN self = other.w
    ELSE other.tag = "obj" /\ self.service = other.obj

\* a plausible slip: "in" looks at the values also for a string
ContainsValuesOnly(svcs, value) ==
  \E n \in DOMAIN svcs : WrapperEquals(svcs[n], value)

\* ServiceCollection.__contains__
ServiceCollection_contains(svcs, value) ==
  IF value.tag = "str"
    THEN value.str \in DOMAIN svcs
    ELSE \E n \in DOMAIN svcs : WrapperEquals(svcs[n], value)

\* self.services[name] = wrapper
SetItem(svcs, name, wrapper) ==
  [n \in DOMAIN svcs \cup {name} |-> IF n = name THEN wrapper ELSE svcs[n]]

\* del self.services[name]
DelItem(svcs, name) == [n \in DOMAIN svcs \ {name} |-> svcs[n]]

-----------------------------------------------------------------------------
(* BaseGateway.addService *)

\* a plausible slip: only strings are refused as scalars
ScalarTypesStringsOnly == {"basestring"}

\* line 228: isinstance(service, (int, long, float, basestring))
ScalarTypes == {"int", "long", "float", "basestring"}

AllowedTypes == {"module", "function", "dict", "instancemethod", "instance", "object"}

\* the name derived when name is None
DerivedName(service) ==
  IF isinstance(service, {"type", "classobj"}) THEN NameOfC
  ELSE IF isinstance(service, {"function"}) THEN NameOfF
  ELSE IF isinstance(service, {"module"}) THEN StrOf(service)
  ELSE StrOf(service)

\* the result of addService: the exception raised (NoExc when none), the name
\* used and the collection afterwards
addService(svcs, service, name, authenticator, description) ==
  IF isinstance(service, ScalarTypes)
    THEN [exc |-> Raise("TypeError", "service cannot be a scalar value", NoArg),
          name |-> name, services |-> svcs]
  ELSE IF ~callable(service) /\ ~isinstance(service, AllowedTypes)
    THEN [exc |-> Raise("TypeError", "service must be callable, a module, or an object", NoArg),
          name |-> name, services |-> svcs]
  ELSE LET nm == IF name = PyNone THEN DerivedName(service) ELSE name IN
    IF ServiceCollection_contains(svcs, StrArg(nm))
      THEN [exc |-> Raise("RemotingError", "Service %s already exists", nm),
            name |-> nm, services |-> svcs]
      ELSE [exc |-> NoExc, name |-> nm,
            services |-> SetItem(svcs, nm, ServiceWrapper(service, authenticator, description))]

-----------------------------------------------------------------------------
(* BaseGateway.removeService *)

\* the branch of the loop body that deletes, for one (name, wrapper) pair
RemoveMatches(service, name, wrapper) ==
  \/ service.tag = "str" /\ service.str = name
  \/ service.tag = "wrapper" /\ WrapperEquals(wrapper, service)
  \/ /\ service.tag = "obj"
     /\ isinstance(service.obj, {"type", "classobj", "function"})
     /\ wrapper.service = service.obj

\* a plausible slip: the membership test of line 262 is left out
removeServiceNoCheck(svcs, service) ==
  LET hits == {n \in DOMAIN svcs : RemoveMatches(service, n, svcs[n])} IN
    IF hits = {}
      THEN {[exc |-> Raise("RuntimeError", "Something went wrong ...", NoArg),
             removed |-> PyNone, services |-> svcs]}
      ELSE {[exc |-> NoExc, removed |-> n, services |-> DelItem(svcs, n)] : n \in hits}

\* the results removeService can have; dict iteration order decides which of
\* several matching names is met first
removeService(svcs, service) ==
  IF ~ServiceCollection_contains(svcs, service)
    THEN {[exc |-> Raise("NameError", "Service %s not found", NoArg),
           removed |-> PyNone, services |-> svcs]}
  ELSE LET hits == {n \in DOMAIN svcs : RemoveMatches(service, n, svcs[n])} IN
    IF hits = {}
      THEN {[exc |-> Raise("RuntimeError", "Something went wrong ...", NoArg),
             removed |-> PyNone, services |-> svcs]}
      ELSE {[exc |-> NoExc, removed |-> n, services |-> DelItem(svcs, n)] : n \in hits}

-----------------------------------------------------------------------------
(* Strings *)

RECURSIVE LastIndexOf(_, _, _)
\* the largest index <= i at which s holds the character c, 0 when there is none
LastIndexOf(s, c, i) ==
  IF i = 0 THEN 0
  ELSE IF s[i] = c THEN i
  ELSE LastIndexOf(s, c, i - 1)

\* target.rsplit('.', 1)
rsplit(target) ==
  LET i == LastIndexOf(target, ".", Len(target)) IN
    IF i = 0 THEN <<target>>
    ELSE <<SubSeq(target, 1, i - 1), SubSeq(target, i + 1, Len(target))>>

\* a plausible slip: only names with two leading underscores count as private
startswithDunder(method) == Len(method) > 1 /\ method[1] = "_" /\ method[2] = "_"

\* method.startswith('_')
startswith_(method) == Len(method) > 0 /\ method[1] = "_"

-----------------------------------------------------------------------------
(* BaseGateway.getServiceRequest *)

NoWrapper == ServiceWrapper(NoneObj, "None", "None")

\* ServiceRequest.__init__ (the envelope is not read by the pipeline)
ServiceRequest(service, method) ==
  [exc |-> NoExc, service |-> service, method |-> method]

NoServiceRequest == ServiceRequest(NoWrapper, PyNone)

\* the ServiceRequest returned, or the exception raised in field exc
getServiceRequest(svcs, target) ==
  IF target \in DOMAIN svcs
    THEN ServiceRequest(svcs[target], PyNone)
  ELSE LET parts == rsplit(target) IN
    IF Len(parts) = 2 /\ parts[1] \in DOMAIN svcs
      THEN ServiceRequest(svcs[parts[1]], parts[2])
      ELSE [exc |-> Raise("NameError", "Unknown service %s", target),
            service |-> NoWrapper, method |-> PyNone]

-----------------------------------------------------------------------------
(* Faults and responses *)

\* the classes of gateway.py that declare _amf_code, and AppFault, an exception
\* class of the application that declares one
ClassesWithAmfCode ==
  {"UnknownServiceError", "UnknownServiceMethodError",
   "InvalidServiceMethodError", "AppFault"}

\* cls._amf_code
amf_code(cls) ==
  CASE cls = "UnknownServiceError" -> "Service.ResourceNotFound"
    [] cls = "UnknownServiceMethodError" -> "Service.MethodNotFound"
    [] cls = "InvalidServiceMethodError" -> "Service.MethodInvalid"
    [] OTHER -> "App.Denied"

\* the body of a response: None, a returned value or a fault
NoneBody ==
  [kind |-> "None", value |-> "", code |-> "", text |-> "", arg |-> NoArg]

ValueBody(v) ==
  [kind |-> "value", value |-> v, code |-> "", text |-> "", arg |-> NoArg]

\* remoting.ErrorFault(code, description); description is str(e), the text
\* with its argument filled in
ErrorFault(code, text, arg) ==
  [kind |-> "fault", value |-> "", code |-> code, text |-> text, arg |-> arg]

\* a plausible slip: the class name is used also when _amf_code is declared
build_fault_name_only(e) == ErrorFault(e.cls, e.text, e.arg)

\* build_fault(), e being the exception sys.exc_info() reports
build_fault(e) ==
  IF e.cls \in ClassesWithAmfCode
    THEN ErrorFault(amf_code(e.cls), e.text, e.arg)
    ELSE ErrorFault(e.cls, e.text, e.arg)

\* remoting.Response(None): a response starts with status OK
Response(body) == [status |-> "OK", body |-> body]

\* the names bound at module level of gateway.py when processRequest runs
\* (fault_alias is deleted at line 61)
ModuleGlobals ==
  {"sys", "traceback", "types", "pyamf", "remoting", "CONTENT_TYPE",
   "BaseServiceError", "UnknownServiceError", "UnknownServiceMethodError",
   "InvalidServiceMethodError", "ServiceWrapper", "ServiceRequest",
   "ServiceCollection", "BaseGateway", "build_fault"}

\* a plausible slip: the except clause names SystemExit alone
IsSignalExitOnly(e) == e.cls = "SystemExit"

\* SystemExit and KeyboardInterrupt are re-raised by processRequest
IsSignal(e) == e.cls \in {"SystemExit", "KeyboardInterrupt"}

-----------------------------------------------------------------------------
(* Messages *)

ExplicitNames == {<<"C">>, <<"C", ".", "m">>, <<"f">>}

MethodNames == {<<"m">>, <<"x">>, <<"_", "p">>, <<"v">>}

Targets ==
  ExplicitNames \cup {n \o <<".">> \o m : n \in ExplicitNames, m \in MethodNames}
    \cup {<<"q">>}

\* request.headers: no Credentials entry, a full one, one without password,
\* one without userid
NoHeaders == [k \in {} |-> [x \in {} |-> ""]]

CredentialsHeader(cred) == [k \in {"Credentials"} |-> cred]

FullCred == [k \in {"userid", "password"} |-> IF k = "userid" THEN "u" ELSE "p"]

NoPasswordCred == [k \in {"userid"} |-> "u"]

NoUseridCred == [k \in {"password"} |-> "p"]

Headers ==
  {NoHeaders, CredentialsHeader(FullCred), CredentialsHeader(NoPasswordCred),
   CredentialsHeader(NoUseridCred)}

Message(target, headers) == [target |-> target, headers |-> headers, body |-> <<>>]

Messages == {Message(t, hd) : t \in Targets, hd \in Headers}

NoMessage == Message(<<>>, NoHeaders)

\* what a call of application code does: return a value or raise
Returns(v) == [exc |-> NoExc, value |-> v]

Raises(e, v) == [exc |-> e, value |-> v]

\* the authenticator: returns a bool or raises
AuthOutcomes ==
  {Returns(TRUE), Returns(FALSE),
   Raises(Raise("ValueError", "no such user", NoArg), FALSE),
   Raises(Raise("SystemExit", "", NoArg), FALSE),
   Raises(Raise("KeyboardInterrupt", "", NoArg), FALSE)}

\* self.service() for a class: a new instance, or __init__ raises
InitOutcomes ==
  {Returns(""),
   Raises(Raise("TypeError", "__init__() takes exactly 2 arguments (1 given)", NoArg), ""),
   Raises(Raise("SystemExit", "", NoArg), ""),
   Raises(Raise("KeyboardInterrupt", "", NoArg), "")}

\* func(*params)
CallOutcomes ==
  {Returns("result"),
   Raises(Raise("ValueError", "bad input", NoArg), ""),
   Raises(Raise("AppFault", "denied", NoArg), ""),
   Raises(Raise("SystemExit", "", NoArg), ""),
   Raises(Raise("KeyboardInterrupt", "", NoArg), "")}

-----------------------------------------------------------------------------
(* Service objects at run time *)

AllProcs == 1..NumProcs

\* identities of the instances made by self.service(); 0 is the registered
\* instance o. A caller holds at most one instance at a time.
InstIds == 1..NumProcs

NoInst == -1

NewObject == [dirty |-> FALSE, users |-> {}]

\* a plausible slip: the instance of a class service is cached and handed out again
InstantiateCached(hp, p) ==
  IF DOMAIN hp \ {0} # {}
    THEN LET i == CHOOSE j \in DOMAIN hp \ {0} : TRUE IN
      [id |-> i, heap |-> [hp EXCEPT ![i].users = @ \cup {p}]]
    ELSE LET i == CHOOSE j \in InstIds : j \notin DOMAIN hp IN
      [id |-> i,
       heap |-> [k \in DOMAIN hp \cup {i} |->
                  IF k = i THEN [dirty |-> FALSE, users |-> {p}] ELSE hp[k]]]

\* self.service(): a new object, held by caller p
Instantiate(hp, p) ==
  LET i == CHOOSE j \in InstIds : j \notin DOMAIN hp IN
    [id |-> i,
     heap |-> [k \in DOMAIN hp \cup {i} |->
                IF k = i THEN [dirty |-> FALSE, users |-> {p}] ELSE hp[k]]]

\* caller p drops its references: an object nobody holds is freed
Release(hp, p) ==
  LET live == {k \in DOMAIN hp : k = 0 \/ hp[k].users \ {p} # {}} IN
    [k \in live |-> [hp[k] EXCEPT !.users = @ \ {p}]]

\* getattr(service, method) on an instance of C (m and _p are methods, v is a
\* data attribute) or on another object
getattr(objtype, method) ==
  IF objtype = "instance"
    THEN CASE method = <<"m">> -> "method"
           [] method = <<"_", "p">> -> "method"
           [] method = <<"v">> -> "value"
           [] OTHER -> "AttributeError"
    ELSE "AttributeError"

NoFunc == [self |-> NoInst, name |-> PyNone]

\* a plausible slip: NameError, as the class docstring announces for an unknown method
UnknownMethodAsNameError(method) == Raise("NameError", "Unknown method %s", method)

\* line 112: raise UnknownServiceMethodError, "Unknown method %s" % str(method)
UnknownMethod(method) ==
  Raise("UnknownServiceMethodError", "Unknown method %s", method)

\* a plausible slip: TypeError, as the docstring of _get_service_func announces
\* for a service that is not callable
NotCallableAsTypeError(service) == Raise("TypeError", "Service must be callable", NoArg)

\* line 120: raise UnknownServiceMethodError, "Unknown method %s" % str(self.service)
NotCallable(service) ==
  Raise("UnknownServiceMethodError", "Unknown method %s", StrOf(service))

\* ServiceWrapper._get_service_func after line 101: service is the object of
\* type objtype with identity self; the func returned or the exception raised,
\* and the number of getattr(service, method) evaluations on the way
get_service_func(wrapper, method, objtype, self) ==
  IF method # PyNone
    THEN IF startswith_(method)
      THEN [exc |-> Raise("InvalidServiceMethodError", "Calls to private methods are not allowed", NoArg),
            func |-> NoFunc, getattrs |-> 0]
    ELSE IF getattr(objtype, method) = "AttributeError"
      THEN [exc |-> UnknownMethod(method), func |-> NoFunc, getattrs |-> 1]
    ELSE IF getattr(objtype, method) # "method"
      THEN [exc |-> Raise("InvalidServiceMethodError", "Service method %s must be callable", method),
            func |-> NoFunc, getattrs |-> 1]
    ELSE [exc |-> NoExc, func |-> [self |-> self, name |-> method], getattrs |-> 1]
  ELSE IF objtype \notin {"classobj", "type", "function", "instancemethod"}
    THEN [exc |-> NotCallable(wrapper.service), func |-> NoFunc, getattrs |-> 0]
  ELSE [exc |-> NoExc, func |-> [self |-> self, name |-> PyNone], getattrs |-> 0]

-----------------------------------------------------------------------------
(* BaseGateway.authenticateRequest and ServiceRequest.authenticate *)

\* a plausible slip: the authenticator is called and its answer dropped
authenticateAnswerDropped(service_request, username, password, o) ==
  [exc |-> NoExc, value |-> TRUE,
   called |-> service_request.service.authenticator # "None"]

\* ServiceRequest.authenticate: o is what the authenticator does when called
authenticate(service_request, username, password, o) ==
  IF service_request.service.authenticator = "None"
    THEN [exc |-> NoExc, value |-> TRUE, called |-> FALSE]
    ELSE [exc |-> o.exc, value |-> o.value, called |-> TRUE]

\* a plausible slip: cred.get('userid') and cred.get('password'), so that a
\* missing key is passed on as None
authenticateRequestLenient(service_request, req, o) ==
  IF "Credentials" \in DOMAIN req.headers
    THEN authenticate(service_request, "u", "None", o)
    ELSE authenticate(service_request, "None", "None", o)

\* lines 320-343: the Credentials header, when there is one, must carry
\* userid and password
authenticateRequest(service_request, req, o) ==
  IF "Credentials" \in DOMAIN req.headers
    THEN LET cred == req.headers["Credentials"] IN
      IF {"userid", "password"} \subseteq DOMAIN cred
        THEN authenticate(service_request, cred["userid"], cred["password"], o)
        ELSE [exc |-> Raise("RemotingError", "Invalid credentials object", NoArg),
              value |-> FALSE, called |-> FALSE]
    ELSE authenticate(service_request, "None", "None", o)

\* lines 379-380: Fault(code='AuthenticationError', ...) looks the name Fault up
\* in the module
AuthenticationFault ==
  IF "Fault" \in ModuleGlobals
    THEN [exc |-> NoExc,
          body |-> ErrorFault("AuthenticationError", "Authentication failed", NoArg)]
    ELSE [exc |-> Raise("NameError", "global name 'Fault' is not defined", NoArg),
          body |-> NoneBody]

-----------------------------------------------------------------------------
(* BaseGateway.processRequest, one caller p *)

\* what one execution of processRequest has done so far
NoHistory ==
  [resolved |-> FALSE,       \* getServiceRequest returned
   authCalls |-> 0,          \* calls of the authenticator
   authRet |-> "none",       \* what the authenticator did: "True", "False", "raised"
   authStep |-> "none",      \* what authenticateRequest did: "True", "False", "raised"
   authExc |-> NoExc,        \* the exception that left authenticateRequest
   inits |-> 0,              \* instantiations of the service class
   inst |-> NoInst,          \* the instance made
   getattrs |-> 0,           \* evaluations of getattr(service, method)
   calls |-> 0,              \* calls of func(*params)
   outcome |-> Returns(""),  \* what service_request(*request.body) did
   faults |-> 0,             \* faults built, by build_fault or by Fault
   sawDirty |-> FALSE]       \* the method found state an earlier call had written

ErrorResponse(body) == [status |-> "ERROR", body |-> body]

\* lines 355-363: a message arrives; response = Response(None); resolve
Resolve(p) ==
  /\ p \in procs
  /\ pc[p] = "idle"
  /\ \E m \in inbox :
       LET r == getServiceRequest(services, m.target) IN
         /\ request' = [request EXCEPT ![p] = m]
         /\ IF r.exc = NoExc
              THEN /\ sr' = [sr EXCEPT ![p] = r]
                   /\ response' = [response EXCEPT ![p] = Response(NoneBody)]
                   /\ h' = [h EXCEPT ![p].resolved = TRUE]
                   /\ pc' = [pc EXCEPT ![p] = "authenticate"]
                   /\ exc' = exc
              ELSE IF r.exc.cls = "NameError"
                THEN /\ response' = [response EXCEPT ![p] = ErrorResponse(build_fault(r.exc))]
                     /\ h' = [h EXCEPT ![p].faults = @ + 1]
                     /\ pc' = [pc EXCEPT ![p] = "returned"]
                     /\ UNCHANGED <<sr, exc>>
                ELSE /\ response' = [response EXCEPT ![p] = Response(NoneBody)]
                     /\ exc' = [exc EXCEPT ![p] = r.exc]
                     /\ pc' = [pc EXCEPT ![p] = "raised"]
                     /\ UNCHANGED <<sr, h>>
  /\ UNCHANGED <<services, last, procs, inbox, authd, func, heap, view>>

\* lines 365-382: authenticate, then the check of authd
Authenticate(p) ==
  /\ p \in procs
  /\ pc[p] = "authenticate"
  /\ \E o \in AuthOutcomes :
       LET a == authenticateRequest(sr[p], request[p], o)
           n == IF a.called THEN 1 ELSE 0
           ret == IF ~a.called THEN "none"
                  ELSE IF o.exc # NoExc THEN "raised"
                  ELSE IF o.value THEN "True" ELSE "False"
       IN
         IF a.exc # NoExc
           THEN IF IsSignal(a.exc)
             THEN /\ exc' = [exc EXCEPT ![p] = a.exc]
                  /\ pc' = [pc EXCEPT ![p] = "raised"]
                  /\ h' = [h EXCEPT ![p].authCalls = @ + n, ![p].authRet = ret,
                                    ![p].authStep = "raised", ![p].authExc = a.exc]
                  /\ UNCHANGED <<response, authd>>
             ELSE /\ response' = [response EXCEPT ![p] = ErrorResponse(build_fault(a.exc))]
                  /\ pc' = [pc EXCEPT ![p] = "returned"]
                  /\ h' = [h EXCEPT ![p].authCalls = @ + n, ![p].authRet = ret,
                                    ![p].authStep = "raised", ![p].authExc = a.exc,
                                    ![p].faults = @ + 1]
                  /\ UNCHANGED <<exc, authd>>
           ELSE /\ authd' = [authd EXCEPT ![p] = a.value]
                /\ IF ~a.value
                     THEN /\ response' = [response EXCEPT
                                            ![p] = ErrorResponse(AuthenticationFault.body)]
                          /\ h' = [h EXCEPT ![p].authCalls = @ + n, ![p].authRet = ret,
                                            ![p].authStep = "False",
                                            ![p].faults = @ + (IF AuthenticationFault.exc = NoExc
                                                                 THEN 1 ELSE 0)]
                          /\ IF AuthenticationFault.exc = NoExc
                               THEN /\ pc' = [pc EXCEPT ![p] = "returned"]
                                    /\ exc' = exc
                               ELSE /\ pc' = [pc EXCEPT ![p] = "raised"]
                                    /\ exc' = [exc EXCEPT ![p] = AuthenticationFault.exc]
                     ELSE /\ pc' = [pc EXCEPT ![p] = "invoke"]
                          /\ h' = [h EXCEPT ![p].authCalls = @ + n, ![p].authRet = ret,
                                            ![p].authStep = "True"]
                          /\ UNCHANGED <<response, exc>>
  /\ UNCHANGED <<services, last, procs, inbox, request, sr, func, heap, view>>

\* lines 385-391, the except clauses: e left service_request(*request.body)
InvokeFailed(p, e) ==
  IF IsSignal(e)
    THEN /\ exc' = [exc EXCEPT ![p] = e]
         /\ pc' = [pc EXCEPT ![p] = "raised"]
         /\ UNCHANGED response
    ELSE /\ response' = [response EXCEPT ![p] = ErrorResponse(build_fault(e))]
         /\ pc' = [pc EXCEPT ![p] = "returned"]
         /\ exc' = exc

\* line 386 down to ServiceWrapper.__call__ line 137: func = _get_service_func
GetServiceFunc(p) ==
  /\ p \in procs
  /\ pc[p] = "invoke"
  /\ LET w == sr[p].service
         isclass == isinstance(w.service, {"type", "classobj"})
     IN \E io \in InitOutcomes :
       IF isclass /\ io.exc # NoExc
         THEN /\ InvokeFailed(p, io.exc)
              /\ h' = [h EXCEPT ![p].inits = @ + 1,
                                ![p].outcome = Raises(io.exc, ""),
                                ![p].faults = @ + (IF IsSignal(io.exc) THEN 0 ELSE 1)]
              /\ UNCHANGED <<func, heap>>
         ELSE LET new == Instantiate(heap, p)
                  self == IF isclass THEN new.id
                          ELSE IF w.service = InstO THEN 0 ELSE NoInst
                  objtype == IF isclass THEN "instance" ELSE TypeOf(w.service)
                  g == get_service_func(w, sr[p].method, objtype, self)
              IN /\ heap' = IF isclass THEN new.heap ELSE heap
                 /\ IF g.exc # NoExc
                      THEN /\ InvokeFailed(p, g.exc)
                           /\ h' = [h EXCEPT ![p].inits = @ + (IF isclass THEN 1 ELSE 0),
                                             ![p].inst = IF isclass THEN new.id ELSE NoInst,
                                             ![p].getattrs = @ + g.getattrs,
                                             ![p].outcome = Raises(g.exc, ""),
                                             ![p].faults = @ + 1]
                           /\ func' = func
                      ELSE /\ func' = [func EXCEPT ![p] = g.func]
                           /\ pc' = [pc EXCEPT ![p] = "call"]
                           /\ h' = [h EXCEPT ![p].inits = @ + (IF isclass THEN 1 ELSE 0),
                                             ![p].inst = IF isclass THEN new.id ELSE NoInst,
                                             ![p].getattrs = @ + g.getattrs]
                           /\ UNCHANGED <<response, exc>>
  /\ UNCHANGED <<services, last, procs, inbox, request, sr, authd, view>>

\* ServiceWrapper.__call__ line 139, func(*params): a method reads and writes
\* the state of the object it is bound to; then lines 386-393
Call(p) ==
  /\ p \in procs
  /\ pc[p] = "call"
  /\ LET self == func[p].self IN
       /\ heap' = IF self = NoInst THEN heap ELSE [heap EXCEPT ![self].dirty = TRUE]
       /\ \E o \in CallOutcomes :
            LET seen == IF self = NoInst THEN FALSE ELSE heap[self].dirty IN
              IF o.exc = NoExc
                THEN /\ response' = [response EXCEPT ![p].body = ValueBody(o.value)]
                     /\ pc' = [pc EXCEPT ![p] = "returned"]
                     /\ h' = [h EXCEPT ![p].calls = @ + 1, ![p].sawDirty = seen,
                                       ![p].outcome = o]
                     /\ exc' = exc
                ELSE /\ InvokeFailed(p, o.exc)
                     /\ h' = [h EXCEPT ![p].calls = @ + 1, ![p].sawDirty = seen,
                                       ![p].outcome = o,
                                       ![p].faults = @ + (IF IsSignal(o.exc) THEN 0 ELSE 1)]
  /\ UNCHANGED <<services, last, procs, inbox, request, sr, authd, func, view>>

\* the locals of processRequest die when it has returned or raised
ReturnLocals(p) ==
  /\ p \in procs
  /\ pc[p] \in {"returned", "raised"}
  /\ pc' = [pc EXCEPT ![p] = "idle"]
  /\ request' = [request EXCEPT ![p] = NoMessage]
  /\ response' = [response EXCEPT ![p] = Response(NoneBody)]
  /\ sr' = [sr EXCEPT ![p] = NoServiceRequest]
  /\ authd' = [authd EXCEPT ![p] = FALSE]
  /\ func' = [func EXCEPT ![p] = NoFunc]
  /\ exc' = [exc EXCEPT ![p] = NoExc]
  /\ h' = [h EXCEPT ![p] = NoHistory]
  /\ heap' = Release(heap, p)

\* processRequest has returned or raised; the caller goes on to the next
\* message
Return(p) ==
  /\ ReturnLocals(p)
  /\ UNCHANGED <<services, last, procs, inbox, view>>

-----------------------------------------------------------------------------
(* Calls of addService and removeService *)

NoLast ==
  [op |-> "", tag |-> "", obj |-> "", str |-> PyNone, exc |-> "",
   name |-> PyNone, removed |-> PyNone]

\* the (authenticator, description) arguments offered to addService
AuthArgs == {<<"None", "None">>, <<"auth", "d">>}

Wrappers ==
  {ServiceWrapper(s, ad[1], ad[2]) : s \in {ClassC, FuncF, InstO, NoneObj}, ad \in AuthArgs}

\* the (service, name) arguments offered to addService
AddArgs ==
  (Objects \X ExplicitNames) \cup ({ClassC, FuncF, IntFive} \X {PyNone})

AddService ==
  \E sn \in AddArgs, ad \in AuthArgs :
    LET r == addService(services, sn[1], sn[2], ad[1], ad[2]) IN
      /\ Cardinality(DOMAIN r.services) <= MaxServices
      /\ services' = r.services
      /\ last' = [op |-> "addService", tag |-> "obj", obj |-> sn[1], str |-> sn[2],
                  exc |-> r.exc.cls, name |-> r.name, removed |-> PyNone]
      /\ UNCHANGED pipelineVars

\* the arguments offered to removeService: a name, an object, the wrapper
\* stored under a name, or another wrapper object
RemoveArgs ==
  {[arg |-> StrArg(n), str |-> n] : n \in ExplicitNames \cup {<<"q">>}}
    \cup {[arg |-> ObjArg(o), str |-> PyNone] : o \in {ClassC, FuncF, InstO, NoneObj}}
    \cup {[arg |-> WrapperArg(services[n]), str |-> n] : n \in DOMAIN services}
    \cup {[arg |-> WrapperArg(w), str |-> PyNone] : w \in Wrappers}

RemoveService ==
  \E x \in RemoveArgs :
    \E r \in removeService(services, x.arg) :
      /\ services' = r.services
      /\ last' = [op |-> "removeService", tag |-> x.arg.tag,
                  obj |-> IF x.arg.tag = "obj" THEN x.arg.obj ELSE "",
                  str |-> x.str, exc |-> r.exc.cls, name |-> PyNone,
                  removed |-> r.removed]
      /\ UNCHANGED pipelineVars

-----------------------------------------------------------------------------
(* pyamf.gateway.django.DjangoGateway and BaseGateway.getProcessor *)

\* largest number of messages in one request envelope
MaxMessages == 2

\* remoting.Envelope(amfVersion, clientType): no headers and no bodies yet;
\* order lists the names as iteration yields them
Envelope(amfVersion, clientType) ==
  [amfVersion |-> amfVersion, clientType |-> clientType, headers |-> {},
   order |-> <<>>, bodies |-> <<>>]

\* envelope[name] = value
SetBody(envelope, name, value) ==
  [envelope EXCEPT
     !.order = IF name \in DOMAIN envelope.bodies THEN @ ELSE Append(@, name),
     !.bodies = SetItem(@, name, value)]

\* the name of the i-th message of a request: "/1", "/2", ...
BodyName(i) == <<"/", i>>

AmfVersions == {0, 3}

ClientTypes == {0, 1}

\* the names an envelope header may carry
EnvelopeHeaders == {"DescribeService"}

\* messages that succeed, that address an unknown service, and that carry a
\* malformed Credentials header
EnvelopeMessages ==
  {Message(<<"C", ".", "m">>, NoHeaders),
   Message(<<"q">>, NoHeaders),
   Message(<<"C", ".", "m">>, CredentialsHeader(NoPasswordCred))}

\* remoting.decode(request.raw_post_data)
Decoded(amfVersion, clientType, headers, messages) ==
  [amfVersion |-> amfVersion, clientType |-> clientType, headers |-> headers,
   order |-> [i \in 1..Len(messages) |-> BodyName(i)],
   bodies |-> [n \in {BodyName(i) : i \in 1..Len(messages)} |-> messages[n[2]]]]

RequestEnvelopes ==
  {Decoded(v, c, hs, ms) :
     v \in AmfVersions, c \in ClientTypes, hs \in SUBSET EnvelopeHeaders,
     ms \in UNION {[1..n -> EnvelopeMessages] : n \in 0..MaxMessages}}

\* what the view stores under a name: the Response processRequest returned, or
\* the NotImplementedError instance that calling the class makes
ResponseObject(r) == [type |-> "Response", status |-> r.status, body |-> r.body]

NotImplementedErrorObject ==
  [type |-> "NotImplementedError", status |-> "", body |-> NoneBody]

\* BaseGateway.getProcessor: the class NotImplementedError is returned, not
\* raised, when the envelope carries DescribeService
getProcessor(amfrequest) ==
  IF "DescribeService" \in amfrequest.headers
    THEN "NotImplementedError"
    ELSE "processRequest"

\* the view is not running
NoView ==
  [stage |-> "off", amfrequest |-> Envelope(0, 0), amfresponse |-> Envelope(0, 0),
   processor |-> "None", pos |-> 0, exc |-> NoExc]

IdleView == [NoView EXCEPT !.stage = "idle"]

\* lines 85-91: a POST arrives; decode, make the response envelope, get the
\* processor
DecodeRequest(p) ==
  /\ p \in procs
  /\ pc[p] = "idle"
  /\ view.stage \in {"idle", "responded", "raised", "notallowed"}
  /\ \E env \in RequestEnvelopes :
       view' = [stage |-> "loop", amfrequest |-> env,
                amfresponse |-> Envelope(env.amfVersion, env.clientType),
                processor |-> getProcessor(env), pos |-> 1, exc |-> NoExc]
  /\ UNCHANGED <<services, last, procs, inbox, pc, request, response, sr, authd,
                 func, exc, h, heap>>

\* lines 99-100: the request is not a POST
NotAllowed(p) ==
  /\ p \in procs
  /\ pc[p] = "idle"
  /\ view.stage \in {"idle", "responded", "raised"}
  /\ view' = [NoView EXCEPT !.stage = "notallowed"]
  /\ UNCHANGED <<services, last, procs, inbox, pc, request, response, sr, authd,
                 func, exc, h, heap>>

\* lines 92-93: the next (name, message) of the request; processor(message)
\* is either NotImplementedError(message) or the start of processRequest
Dispatch(p) ==
  /\ p \in procs
  /\ pc[p] = "idle"
  /\ view.stage = "loop"
  /\ view.pos <= Len(view.amfrequest.order)
  /\ LET name == view.amfrequest.order[view.pos]
         message == view.amfrequest.bodies[name]
     IN IF view.processor = "NotImplementedError"
          THEN /\ view' = [view EXCEPT
                             !.amfresponse = SetBody(@, name, NotImplementedErrorObject),
                             !.pos = @ + 1]
               /\ inbox' = inbox
          ELSE /\ view' = [view EXCEPT !.stage = "call"]
               /\ inbox' = {message}
  /\ UNCHANGED <<services, last, procs, pc, request, response, sr, authd, func,
                 exc, h, heap>>

\* line 93: processRequest is back; its Response is stored under the name, or
\* its exception leaves the loop and the view
Collect(p) ==
  /\ view.stage = "call"
  /\ ReturnLocals(p)
  /\ inbox' = {}
  /\ LET name == view.amfrequest.order[view.pos] IN
       view' = IF pc[p] = "returned"
                 THEN [view EXCEPT
                         !.stage = "loop",
                         !.amfresponse = SetBody(@, name, ResponseObject(response[p])),
                         !.pos = @ + 1]
                 ELSE [view EXCEPT !.stage = "raised", !.exc = exc[p]]
  /\ UNCHANGED <<services, last, procs>>

\* lines 94-98: the loop is over; the response envelope is encoded and written
Encode(p) ==
  /\ p \in procs
  /\ pc[p] = "idle"
  /\ view.stage = "loop"
  /\ view.pos > Len(view.amfrequest.order)
  /\ view' = [view EXCEPT !.stage = "responded"]
  /\ UNCHANGED <<services, last, procs, inbox, pc, request, response, sr, authd,
                 func, exc, h, heap>>

-----------------------------------------------------------------------------
(* Specifications *)

InitLocals ==
  /\ last = NoLast
  /\ pc = [p \in AllProcs |-> "idle"]
  /\ request = [p \in AllProcs |-> NoMessage]
  /\ response = [p \in AllProcs |-> Response(NoneBody)]
  /\ sr = [p \in AllProcs |-> NoServiceRequest]
  /\ authd = [p \in AllProcs |-> FALSE]
  /\ func = [p \in AllProcs |-> NoFunc]
  /\ exc = [p \in AllProcs |-> NoExc]
  /\ h = [p \in AllProcs |-> NoHistory]
  /\ heap = [k \in {0} |-> NewObject]

\* the collections addService builds from valid services under explicit names
PipelineWrappers ==
  {ServiceWrapper(s, a, "None") : s \in {ClassC, FuncF, InstO}, a \in Authenticators}

Registries(names, wrappers) ==
  UNION {[S -> wrappers] : S \in {T \in SUBSET names : Cardinality(T) <= MaxServices}}

\* the gateway as configured at start-up, one caller
Init ==
  /\ InitLocals
  /\ view = NoView
  /\ services \in Registries(ExplicitNames, PipelineWrappers)
  /\ procs = {1}
  /\ inbox = Messages

\* the registry alone, driven by addService / removeService
InitRegistry ==
  /\ InitLocals
  /\ view = NoView
  /\ services = EmptyServices
  /\ procs = {}
  /\ inbox = {}

\* concurrent callers on a gateway holding one service without authenticator
ConcurrentWrappers == {ServiceWrapper(s, "None", "None") : s \in {ClassC, FuncF, InstO}}

ConcurrentMessages == {Message(t, NoHeaders) : t \in {<<"C">>, <<"C", ".", "m">>}}

InitConcurrent ==
  /\ InitLocals
  /\ view = NoView
  /\ services \in [{<<"C">>} -> ConcurrentWrappers]
  /\ procs = AllProcs
  /\ inbox = ConcurrentMessages

\* the view on a gateway that holds the class C, with or without authenticator
EnvelopeWrappers == {ServiceWrapper(ClassC, a, "None") : a \in Authenticators}

InitEnvelope ==
  /\ InitLocals
  /\ view = IdleView
  /\ services \in Registries({<<"C">>}, EnvelopeWrappers)
  /\ procs = {1}
  /\ inbox = {}

ProcessRequest ==
  \E p \in AllProcs :
    \/ Resolve(p)
    \/ Authenticate(p)
    \/ GetServiceFunc(p)
    \/ Call(p)
    \/ Return(p)

Next == ProcessRequest

NextRegistry == AddService \/ RemoveService

DjangoGateway ==
  \E p \in AllProcs :
    \/ DecodeRequest(p)
    \/ NotAllowed(p)
    \/ Dispatch(p)
    \/ Resolve(p)
    \/ Authenticate(p)
    \/ GetServiceFunc(p)
    \/ Call(p)
    \/ Collect(p)
    \/ Encode(p)

NextEnvelope == DjangoGateway

Spec == Init /\ [][Next]_vars

SpecRegistry == InitRegistry /\ [][NextRegistry]_vars

SpecConcurrent == InitConcurrent /\ [][Next]_vars

SpecEnvelope == InitEnvelope /\ [][NextEnvelope]_vars

-----------------------------------------------------------------------------
(* Properties *)

Done(p) == pc[p] \in {"returned", "raised"}

\* the service of the resolved request is a class
IsClassService(p) == isinstance(sr[p].service.service, {"type", "classobj"})

\* the type of the object the method is looked up on
ServiceObjectType(p) ==
  IF IsClassService(p) THEN "instance" ELSE TypeOf(sr[p].service.service)

\* C1: whatever the registry and the message, and as long as no process-control
\* signal is raised, processRequest returns a Response whose status is OK or
\* ERROR and never raises to its caller.
C1_ProcessRequestNeverRaises ==
  \A p \in AllProcs :
    /\ pc[p] = "raised" => IsSignal(exc[p])
    /\ pc[p] = "returned" => response[p].status \in {"OK", "ERROR"}

\* C2: when the authenticator of the resolved service returns false,
\* processRequest returns an ERROR response whose body is the fault
\* AuthenticationError / 'Authentication failed', and the service is not invoked.
C2_AuthenticationFailedFault ==
  \A p \in AllProcs :
    (Done(p) /\ h[p].authRet = "False") =>
      /\ pc[p] = "returned"
      /\ response[p] = ErrorResponse(
           ErrorFault("AuthenticationError", "Authentication failed", NoArg))
      /\ h[p].calls = 0
      /\ h[p].inits = 0

\* C3: the stages run in the order resolve, authenticate, invoke. The service
\* (its class or its callable) is touched only after resolution succeeded and
\* the authenticate step returned true, the authenticator, if there is one,
\* having been called and having returned true; when resolution fails neither
\* the authenticator nor the service is called and the response is ERROR; when
\* the authenticate step raises the service is not called.
C3_ResolveAuthenticateInvoke ==
  \A p \in AllProcs :
    /\ (h[p].calls > 0 \/ h[p].inits > 0 \/ pc[p] \in {"invoke", "call"}) =>
         /\ h[p].resolved
         /\ sr[p] = getServiceRequest(services, request[p].target)
         /\ h[p].authStep = "True"
         /\ IF sr[p].service.authenticator = "None"
              THEN h[p].authCalls = 0
              ELSE h[p].authCalls = 1 /\ h[p].authRet = "True"
    /\ (pc[p] # "idle" /\ ~h[p].resolved) =>
         /\ pc[p] = "returned"
         /\ response[p].status = "ERROR"
         /\ h[p].authCalls = 0 /\ h[p].calls = 0 /\ h[p].inits = 0
    /\ h[p].authStep = "raised" => h[p].calls = 0 /\ h[p].inits = 0

\* C3 witness: a service with an authenticator was invoked after the
\* authenticator had returned true
C3_Witness ==
  \E p \in AllProcs :
    /\ pc[p] = "returned"
    /\ h[p].calls = 1
    /\ h[p].authCalls = 1
    /\ h[p].authRet = "True"

\* C4: addService with a name that is already present fails and leaves the
\* collection as it was; a service that passes the type checks fails with the
\* error the code raises for a duplicate, RemotingError "Service ... already
\* exists" (the spec's DuplicateServiceError).
C4_DuplicateNameRejected ==
  [][(last'.op = "addService" /\ last'.name \in DOMAIN services) =>
       /\ services' = services
       /\ last'.exc # ""
       /\ ~isinstance(last'.obj, ScalarTypes) => last'.exc = "RemotingError"]_vars

\* C4 witness: a registration under a taken name was refused, and the entry
\* kept under that name holds another service than the one offered
C4_Witness ==
  /\ last.op = "addService"
  /\ last.exc = "RemotingError"
  /\ last.name \in DOMAIN services
  /\ services[last.name].service # last.obj

\* C5: removeService succeeds when given the name a service is registered
\* under, the registered instance, or the registered class or function: it
\* returns normally, removes one entry that matches and leaves the others.
C5_UnregisterRegistered ==
  [][(/\ last'.op = "removeService"
      /\ \/ last'.tag = "str" /\ last'.str \in DOMAIN services
         \/ /\ last'.tag = "obj"
            /\ last'.obj \in {ClassC, FuncF, InstO}
            /\ \E n \in DOMAIN services : services[n].service = last'.obj) =>
       /\ last'.exc = ""
       /\ last'.removed \in DOMAIN services
       /\ services' = DelItem(services, last'.removed)
       /\ last'.tag = "str" => last'.removed = last'.str
       /\ last'.tag = "obj" => services[last'.removed].service = last'.obj]_vars

\* C6: resolution is exact match first, then service.method cut at the last
\* '.', and otherwise fails with UnknownServiceError carrying the target.
C6_TwoStageResolution ==
  \A p \in AllProcs :
    pc[p] # "idle" =>
      LET t == request[p].target
          r == getServiceRequest(services, t)
          dots == {i \in 1..Len(t) : t[i] = "."}
          cut == CHOOSE i \in dots : \A j \in dots : j <= i
      IN IF t \in DOMAIN services
           THEN r = ServiceRequest(services[t], PyNone) /\ sr[p] = r
         ELSE IF dots # {} /\ SubSeq(t, 1, cut - 1) \in DOMAIN services
           THEN /\ r = ServiceRequest(services[SubSeq(t, 1, cut - 1)],
                                      SubSeq(t, cut + 1, Len(t)))
                /\ sr[p] = r
         ELSE /\ r.exc.cls = "UnknownServiceError"
              /\ r.exc.arg = t
              /\ ~h[p].resolved

\* C7: every invocation of a class service makes its own instance and calls
\* the method on it: no instance is held by two invocations, and a method
\* never finds state that another invocation wrote.
C7_FreshInstancePerInvocation ==
  /\ \A i \in DOMAIN heap \ {0} : Cardinality(heap[i].users) <= 1
  /\ \A p \in AllProcs :
       IsClassService(p) =>
         /\ pc[p] = "call" =>
              /\ h[p].inits = 1
              /\ func[p].self = h[p].inst
              /\ func[p].self \in DOMAIN heap \ {0}
              /\ heap[func[p].self].users = {p}
              /\ ~heap[func[p].self].dirty
         /\ h[p].calls > 0 => h[p].inits = 1 /\ ~h[p].sawDirty
  /\ \A p, q \in AllProcs :
       (p # q /\ IsClassService(p) /\ IsClassService(q)
          /\ h[p].inst # NoInst /\ h[q].inst # NoInst) => h[p].inst # h[q].inst

\* C7 witness: two callers are inside a method of the same class service at
\* the same time, each on its own instance, one of them having written state
C7_Witness ==
  \E p, q \in AllProcs :
    /\ p # q
    /\ IsClassService(p) /\ IsClassService(q)
    /\ pc[p] = "call" /\ h[q].calls = 1
    /\ heap[h[q].inst].dirty

\* C8: when the authorized invocation raises an exception that is not a
\* process-control signal the response is ERROR with a fault whose description
\* is the exception's text and whose code is the declared _amf_code of its
\* class, or the class name when it declares none; when it returns, the
\* response is OK and carries the returned value.
C8_FaultFromException ==
  \A p \in AllProcs :
    (Done(p) /\ h[p].authStep = "True") =>
      LET e == h[p].outcome.exc IN
        IF e = NoExc
          THEN /\ pc[p] = "returned"
               /\ h[p].calls = 1
               /\ response[p].status = "OK"
               /\ response[p].body = ValueBody(h[p].outcome.value)
        ELSE IF IsSignal(e) THEN pc[p] = "raised"
        ELSE /\ pc[p] = "returned"
             /\ response[p].status = "ERROR"
             /\ response[p].body.kind = "fault"
             /\ response[p].body.text = e.text
             /\ response[p].body.arg = e.arg
             /\ response[p].body.code =
                  IF e.cls \in ClassesWithAmfCode THEN amf_code(e.cls) ELSE e.cls

\* C8 witness: the service raised ValueError('bad input') and, in another run,
\* an exception whose class declares a code
C8_Witness ==
  \E p \in AllProcs :
    /\ pc[p] = "returned"
    /\ h[p].calls = 1
    /\ h[p].outcome.exc.cls = "AppFault"
    /\ response[p].body.code = "App.Denied"
    /\ response[p].body.text = "denied"

\* C9: a target that resolves to no service gives an ERROR response whose
\* fault code is the code of UnknownServiceError and whose description carries
\* the target.
C9_UnknownServiceCode ==
  \A p \in AllProcs :
    (Done(p) /\ ~h[p].resolved) =>
      /\ pc[p] = "returned"
      /\ response[p].status = "ERROR"
      /\ response[p].body.code = amf_code("UnknownServiceError")
      /\ response[p].body.arg = request[p].target

\* the fault code of a target that resolves to no service
UnknownServiceFaultCode ==
  build_fault(getServiceRequest(EmptyServices, <<"q">>).exc).code

\* the request of p was authorized, names a method that is not private and
\* that the service object, made without failure, does not have
AddressesMissingMethod(p) ==
  /\ Done(p)
  /\ h[p].authStep = "True"
  /\ sr[p].method # PyNone
  /\ ~startswith_(sr[p].method)
  /\ getattr(ServiceObjectType(p), sr[p].method) = "AttributeError"
  /\ IsClassService(p) => h[p].inst # NoInst

AddressesPrivate(p) ==
  /\ pc[p] # "idle"
  /\ LET parts == rsplit(request[p].target) IN
       /\ Len(parts) = 2
       /\ Len(parts[2]) > 0
       /\ parts[2][1] = "_"

LacksCredentialKey(p) ==
  /\ "Credentials" \in DOMAIN request[p].headers
  /\ \/ "userid" \notin DOMAIN request[p].headers["Credentials"]
     \/ "password" \notin DOMAIN request[p].headers["Credentials"]

\* C12: when the target resolves and the Credentials header lacks userid or
\* password, processRequest returns an ERROR response whose fault comes from
\* RemotingError 'Invalid credentials object', and neither the authenticator
\* nor the service is called, with or without an authenticator on the service.
C12_InvalidCredentialsObject ==
  \A p \in AllProcs :
    (Done(p) /\ h[p].resolved /\ LacksCredentialKey(p)) =>
      /\ pc[p] = "returned"
      /\ response[p].status = "ERROR"
      /\ response[p].body.kind = "fault"
      /\ h[p].authExc.cls = "RemotingError"
      /\ h[p].authExc.text = "Invalid credentials object"
      /\ response[p].body = build_fault(h[p].authExc)
      /\ response[p].body.text = "Invalid credentials object"
      /\ h[p].authCalls = 0
      /\ h[p].inits = 0
      /\ h[p].getattrs = 0
      /\ h[p].calls = 0
      /\ h[p].faults = 1

\* C12 witness: a service with an authenticator was addressed with credentials
\* that carry no userid, and the invalid-credentials fault came back
C12_Witness ==
  \E p \in AllProcs :
    /\ pc[p] = "returned"
    /\ h[p].resolved
    /\ sr[p].service.authenticator # "None"
    /\ request[p].headers = CredentialsHeader(NoUseridCred)
    /\ response[p].body.text = "Invalid credentials object"

\* SystemExit and KeyboardInterrupt
Signals == {"SystemExit", "KeyboardInterrupt"}

\* C13: SystemExit or KeyboardInterrupt raised by the authenticator, by the
\* instantiation of a class service or by the invoked service leaves
\* processRequest uncaught: it raises that exception, returns no Response and
\* builds no fault.
C13_SignalsPropagate ==
  \A p \in AllProcs :
    (Done(p) /\ (h[p].authExc.cls \in Signals \/ h[p].outcome.exc.cls \in Signals)) =>
      /\ pc[p] = "raised"
      /\ exc[p] \in {h[p].authExc, h[p].outcome.exc}
      /\ exc[p].cls \in Signals
      /\ response[p].status = "OK"
      /\ response[p].body = NoneBody
      /\ h[p].faults = 0

\* C13 witness: the __init__ of a class service raised KeyboardInterrupt after
\* the authenticator had agreed, and the exception left processRequest
C13_Witness ==
  \E p \in AllProcs :
    /\ pc[p] = "raised"
    /\ IsClassService(p)
    /\ h[p].authRet = "True"
    /\ h[p].inits = 1
    /\ h[p].calls = 0
    /\ h[p].outcome.exc.cls = "KeyboardInterrupt"
    /\ exc[p].cls = "KeyboardInterrupt"

\* C14: whatever the request envelope holds, the view answers with an envelope
\* that has the same names as the request, each mapped to the Response that
\* processRequest made for that message, and the same amfVersion and
\* clientType; only a process-control signal keeps it from answering.
C14_EnvelopePreserved ==
  /\ view.stage = "raised" => view.exc.cls \in Signals
  /\ view.stage = "responded" =>
       /\ view.amfresponse.amfVersion = view.amfrequest.amfVersion
       /\ view.amfresponse.clientType = view.amfrequest.clientType
       /\ DOMAIN view.amfresponse.bodies = DOMAIN view.amfrequest.bodies
       /\ Len(view.amfresponse.order) = Len(view.amfrequest.order)
       /\ \A n \in DOMAIN view.amfresponse.bodies :
            /\ view.amfresponse.bodies[n].type = "Response"
            /\ view.amfresponse.bodies[n].status \in {"OK", "ERROR"}

\* C15: removeService given a name that is not registered, or an object that
\* is the service of no entry, raises NameError and leaves the collection as
\* it was.
C15_UnregisterUnknown ==
  [][(/\ last'.op = "removeService"
      /\ \/ last'.tag = "str" /\ last'.str \notin DOMAIN services
         \/ /\ last'.tag = "obj"
            /\ \A n \in DOMAIN services : services[n].service # last'.obj) =>
       /\ last'.exc = "NameError"
       /\ last'.removed = PyNone
       /\ services' = services]_vars

\* C15 witness: the class C was offered for removal while only other services
\* were registered, and the call was refused with every entry kept
C15_Witness ==
  /\ last.op = "removeService"
  /\ last.tag = "obj"
  /\ last.obj = ClassC
  /\ last.exc = "NameError"
  /\ services # EmptyServices
  /\ \A n \in DOMAIN services : services[n].service # ClassC

\* the scalar values: a number, a string, a boolean
Scalars == {IntFive, StrS, BoolTrue}

\* C16: addService given a number, a string or a boolean as the service raises
\* TypeError whatever the name argument is, and leaves the collection as it
\* was.
C16_ScalarRejected ==
  [][(last'.op = "addService" /\ last'.obj \in Scalars) =>
       /\ last'.exc = "TypeError"
       /\ services' = services]_vars

\* C16 witness: True was offered under an explicit name that was free, next to
\* a registered service, and was refused
C16_Witness ==
  /\ last.op = "addService"
  /\ last.obj = BoolTrue
  /\ last.str # PyNone
  /\ last.str \notin DOMAIN services
  /\ last.exc = "TypeError"
  /\ services # EmptyServices

\* C17: removeService given the ServiceWrapper stored under a name removes the
\* entry of that name and no other, also when another name holds a wrapper
\* with equal service, authenticator and description.
C17_UnregisterVeryEntry ==
  [][(/\ last'.op = "removeService"
      /\ last'.tag = "wrapper"
      /\ last'.str # PyNone) =>
       /\ last'.exc = ""
       /\ last'.removed = last'.str
       /\ services' = DelItem(services, last'.str)]_vars

\* the request of p was authorized and resolved by exact match (no method) to
\* a service object that is not callable
ExactNonCallable(p) ==
  /\ Done(p)
  /\ h[p].resolved
  /\ h[p].authStep = "True"
  /\ sr[p].method = PyNone
  /\ ~callable(sr[p].service.service)

C19_AtMostOneAttempt ==
  \A p \in AllProcs :
    /\ h[p].authCalls <= 1
    /\ h[p].inits <= 1
    /\ h[p].getattrs <= 1
    /\ h[p].calls <= 1
    /\ h[p].faults <= 1
    /\ (Done(p) /\ response[p].status = "ERROR") => h[p].faults = 1
    /\ (Done(p) /\ response[p].status = "OK") => h[p].faults = 0

\* C20: addService given a value that is neither callable nor a module,
\* function, class, instance or bound method (None here) raises TypeError and
\* leaves the collection as it was; no entry ever holds such a value.
C20_NonServiceRejected ==
  [][(last'.op = "addService" /\ last'.obj = NoneObj) =>
       /\ last'.exc = "TypeError"
       /\ services' = services
       /\ \A n \in DOMAIN services' : services'[n].service # NoneObj]_vars

====
